---- MODULE Spec2Model ----
(***************************************************************************)
(* Non-dominated (Pareto) sort: the cursor engine of src/src/sort.rs       *)
(* (non_dominated_sort, Front::next_front, the Index trait) and the        *)
(* iterator engine of src/src/non_dominated_sort.rs (NonDominatedSort::new,*)
(* Iterator::next, pareto_fronts, pareto_fronts_stop_at), run on a         *)
(* caller-supplied slice of solutions and a DominationOrd capability.      *)
(*                                                                         *)
(* A Vec indexed by position is a function on 0..len-1, so that indices    *)
(* keep the 0-based values of the source; a Vec that is only pushed to and *)
(* iterated (a front, a dominated list) is a sequence of 0-based indices.  *)
(***************************************************************************)
EXTENDS Integers, Sequences, FiniteSets, TLC

VARIABLES
    solutions,      \* the caller's slice: a function on 0..N-1
    domination,     \* the caller's DominationOrd capability
    pc,             \* which call of the client returned last
    index_type,     \* the type parameter I of sort.rs ("usize", "narrow"), "none" before
    front,          \* the cursor of sort.rs (struct Front), NoValue before construction
    nds,            \* the engine of non_dominated_sort.rs (struct NonDominatedSort)
    yielded,        \* what the client has observed, in order: every cursor, every next() result
    fronts,         \* the Vec returned by pareto_fronts / pareto_fronts_stop_at
    max_solutions,  \* the argument of pareto_fronts_stop_at, -1 before the call
    calls           \* every domination_ord call so far, as <<p index, q index>>

vars == <<solutions, domination, pc, index_type, front, nds, yielded, fronts,
          max_solutions, calls>>

----------------------------------------------------------------------------
(* Bounds of the model *)

\* Longest input drawn with an arbitrary tabulated dominance capability
\* (any answers, also cyclic or intransitive ones).
MaxN == 3
\* Longest input drawn with a tabulated capability whose "dominates" relation
\* is a strict partial order.
MaxOrderN == 4
\* Largest n of the synthetic input create_solutions_with_n_fronts(n, n_fronts).
MaxGroupSize == 3
\* Largest n_fronts of the synthetic input.
MaxFronts == 3
\* Most advances (next_front / next calls) a client makes in one run.
MaxCalls == 5
\* Longest input drawn with a capability that answers every ordered pair on
\* its own.
MaxFullN == 2
\* Width in bits of the narrowed index type. The source's narrowed type is u32
\* (32 bits); the model narrows further so that inputs longer than the type's
\* range exist within the bounds above.
NarrowBits == 2

----------------------------------------------------------------------------
(* Values *)

NoValue == [none |-> TRUE]
None == [tag |-> "None"]
Ordering == {"Less", "Equal", "Greater"}

RECURSIVE Pow2(_)
Pow2(k) == IF k = 0 THEN 1 ELSE 2 * Pow2(k - 1)

\* The largest value of the narrowed index type (u32::max_value() for u32).
NarrowMax == Pow2(NarrowBits) - 1

Len0(v) == Cardinality(DOMAIN v)

----------------------------------------------------------------------------
(* The dominance capability *)

\* An opaque solution: the k-th distinct object of the caller.
Opaque(k) == <<k>>

Reverse(o) == IF o = "Less" THEN "Greater" ELSE IF o = "Greater" THEN "Less" ELSE "Equal"

\* Dominance that asks for strictly better in both coordinates.
TupleStrictlyBetter(a, b) ==
    IF a[1] < b[1] /\ a[2] < b[2] THEN "Less"
    ELSE IF a[1] > b[1] /\ a[2] > b[2] THEN "Greater"
    ELSE "Equal"

\* test_helper_domination.rs: Tuple(a, b) is <<a, b>>.
TupleDominationOrd(a, b) ==
    IF a[1] < b[1] /\ a[2] <= b[2] THEN "Less"
    ELSE IF a[1] <= b[1] /\ a[2] < b[2] THEN "Less"
    ELSE IF a[1] > b[1] /\ a[2] >= b[2] THEN "Greater"
    ELSE IF a[1] >= b[1] /\ a[2] > b[2] THEN "Greater"
    ELSE "Equal"

\* DominationOrd::domination_ord of the capability d on solutions a and b.
\* A tabulated capability answers for two distinct objects from its table,
\* the reverse pair by the reverse answer, and Equal for an object with itself.
\* A capability of kind "full" holds an answer of its own for every ordered
\* pair of objects, an object with itself included.
domination_ord(d, a, b) ==
    IF d.kind = "tuple" THEN TupleDominationOrd(a, b)
    ELSE IF d.kind = "full" THEN d.ord[<<a[1], b[1]>>]
    ELSE IF a[1] < b[1] THEN d.ord[<<a[1], b[1]>>]
    ELSE IF b[1] < a[1] THEN Reverse(d.ord[<<b[1], a[1]>>])
    ELSE "Equal"

\* DominationOrd::dominates
dominates(d, a, b) == domination_ord(d, a, b) = "Less"

----------------------------------------------------------------------------
(* sort.rs: trait Index, impl for usize and for the narrowed type (u32) *)

\* A check that accepts every length.
Index_checkAlways(I, max_index) == TRUE

\* Index::check
Index_check(I, max_index) ==
    IF I = "usize" THEN TRUE ELSE max_index <= NarrowMax

\* Index::new: `index as u32` keeps the low bits.
Index_new(I, index) ==
    IF I = "usize" THEN index ELSE index % (NarrowMax + 1)

\* Index::index
Index_index(I, x) == x

\* An inc that leaves the count as it is.
Index_incNone(I, x) == x

\* Index::inc: `*self += 1` (wrapping at the type's width in a release build).
Index_inc(I, x) ==
    IF I = "usize" THEN x + 1 ELSE (x + 1) % (NarrowMax + 1)

\* Index::dec_to_zero: the decremented value; the bool it returns is DecIsZero.
Index_dec(I, x) == x - 1

\* A test that reports zero after every decrement.
DecIsZeroAlways(I, x) == TRUE

\* Index::dec_to_zero: the returned bool, `*self == 0` after the decrement.
DecIsZero(I, x) == Index_dec(I, x) = 0

----------------------------------------------------------------------------
(* sort.rs: non_dominated_sort *)

\* The match on the capability's answer for the pair (p_i, q_i), with the
\* arms of Less and Greater exchanged.
MatchOrdSwapped(I, o, p_i, q_i, st) ==
    IF o = "Greater"
    THEN [st EXCEPT !.dominated_solutions[p_i] = Append(@, Index_new(I, q_i)),
                    !.domination_count[q_i] = Index_inc(I, @)]
    ELSE IF o = "Less"
    THEN [st EXCEPT !.dominated_solutions[q_i] = Append(@, Index_new(I, p_i)),
                    !.domination_count[p_i] = Index_inc(I, @)]
    ELSE st

\* The match on the capability's answer for the pair (p_i, q_i).
MatchOrd(I, o, p_i, q_i, st) ==
    IF o = "Less"
    THEN [st EXCEPT !.dominated_solutions[p_i] = Append(@, Index_new(I, q_i)),
                    !.domination_count[q_i] = Index_inc(I, @)]
    ELSE IF o = "Greater"
    THEN [st EXCEPT !.dominated_solutions[q_i] = Append(@, Index_new(I, p_i)),
                    !.domination_count[p_i] = Index_inc(I, @)]
    ELSE st

\* The inner loop asking the capability for (q, p) and reversing its answer.
RECURSIVE PairLoopReversed(_, _, _, _, _, _)
PairLoopReversed(sols, d, I, p_i, q_i, st) ==
    IF q_i >= Len0(sols) THEN st
    ELSE PairLoopReversed(sols, d, I, p_i, q_i + 1,
            MatchOrd(I, Reverse(domination_ord(d, sols[q_i], sols[p_i])), p_i, q_i,
                     [st EXCEPT !.calls = Append(@, <<p_i, q_i>>)]))

\* The inner loop: pair_iter over the positions after p_i, from q_i on.
RECURSIVE PairLoop(_, _, _, _, _, _)
PairLoop(sols, d, I, p_i, q_i, st) ==
    IF q_i >= Len0(sols) THEN st
    ELSE PairLoop(sols, d, I, p_i, q_i + 1,
            MatchOrd(I, domination_ord(d, sols[p_i], sols[q_i]), p_i, q_i,
                     [st EXCEPT !.calls = Append(@, <<p_i, q_i>>)]))

\* The end of p_i's row without the test: p_i joins the initial front.
RowEndAlways(I, p_i, st) ==
    [st EXCEPT !.current_front = Append(@, Index_new(I, p_i))]

\* The test at the end of p_i's row: a zero count joins the initial front.
RowEnd(I, p_i, st) ==
    IF Index_index(I, st.domination_count[p_i]) = 0
    THEN [st EXCEPT !.current_front = Append(@, Index_new(I, p_i))]
    ELSE st

\* The outer loop with the zero test for p_i made before p_i's row instead
\* of at its end.
RECURSIVE RowLoopTestFirst(_, _, _, _, _)
RowLoopTestFirst(sols, d, I, p_i, st) ==
    IF p_i >= Len0(st.domination_count) THEN st
    ELSE RowLoopTestFirst(sols, d, I, p_i + 1,
            PairLoop(sols, d, I, p_i, p_i + 1, RowEnd(I, p_i, st)))

\* The outer loop: iter over the positions from p_i on (domination_count has
\* one entry for each solution).
RECURSIVE RowLoop(_, _, _, _, _)
RowLoop(sols, d, I, p_i, st) ==
    IF p_i >= Len0(st.domination_count) THEN st
    ELSE RowLoop(sols, d, I, p_i + 1,
            RowEnd(I, p_i, PairLoop(sols, d, I, p_i, p_i + 1, st)))

\* non_dominated_sort::<S, D, I>(solutions, domination): the assert, the
\* sweep, the returned Front. `calls` lists the capability's invocations.
non_dominated_sort(sols, d, I) ==
    IF ~Index_check(I, Len0(sols))
    THEN [panicked |-> TRUE, front |-> NoValue, calls |-> <<>>]
    ELSE LET st == RowLoop(sols, d, I, 0,
                     [dominated_solutions |-> [i \in DOMAIN sols |-> <<>>],
                      domination_count |-> [i \in DOMAIN sols |-> Index_new(I, 0)],
                      current_front |-> <<>>,
                      calls |-> <<>>])
         IN [panicked |-> FALSE,
             front |-> [dominated_solutions |-> st.dominated_solutions,
                        domination_count |-> st.domination_count,
                        current_front |-> st.current_front,
                        rank |-> 0],
             calls |-> st.calls]

----------------------------------------------------------------------------
(* sort.rs: Front::next_front *)

\* The body with the push at the head of next_front instead of its end.
DecStepPrepend(I, q_i, st) ==
    IF st.panicked THEN st
    ELSE IF ~(Index_index(I, st.domination_count[Index_index(I, q_i)]) > 0)
    THEN [st EXCEPT !.panicked = TRUE]
    ELSE LET c == st.domination_count[Index_index(I, q_i)]
             s1 == [st EXCEPT !.domination_count[Index_index(I, q_i)] = Index_dec(I, c)]
         IN IF DecIsZero(I, c)
            THEN [s1 EXCEPT !.next_front = <<q_i>> \o @]
            ELSE s1

\* One pass of the inner loop's body for q_i: the debug_assert, dec_to_zero,
\* the push. A failed debug_assert stops the run (debug build).
DecStep(I, q_i, st) ==
    IF st.panicked THEN st
    ELSE IF ~(Index_index(I, st.domination_count[Index_index(I, q_i)]) > 0)
    THEN [st EXCEPT !.panicked = TRUE]
    ELSE LET c == st.domination_count[Index_index(I, q_i)]
             s1 == [st EXCEPT !.domination_count[Index_index(I, q_i)] = Index_dec(I, c)]
         IN IF DecIsZero(I, c)
            THEN [s1 EXCEPT !.next_front = Append(@, q_i)]
            ELSE s1

\* The inner loop taking the dominated list from its end (pop) instead of
\* from its start.
RECURSIVE DominatedLoopFromEnd(_, _, _, _)
DominatedLoopFromEnd(I, qs, k, st) ==
    IF k > Len(qs) THEN st
    ELSE DominatedLoopFromEnd(I, qs, k + 1, DecStep(I, qs[Len(qs) + 1 - k], st))

\* for &q_i in dominated_solutions[p_i.index()].iter(), from position k on
RECURSIVE DominatedLoop(_, _, _, _)
DominatedLoop(I, qs, k, st) ==
    IF k > Len(qs) THEN st
    ELSE DominatedLoop(I, qs, k + 1, DecStep(I, qs[k], st))

\* for p_i in current_front.into_iter(), from position k on
RECURSIVE FrontLoop(_, _, _, _)
FrontLoop(I, f, k, st) ==
    IF k > Len(f.current_front) THEN st
    ELSE FrontLoop(I, f, k + 1,
            DominatedLoop(I, f.dominated_solutions[Index_index(I, f.current_front[k])], 1, st))

\* rank: rank + 1
RankNext(rank) == rank + 1

\* Front::next_front(self)
next_front(I, f) ==
    LET st == FrontLoop(I, f, 1, [domination_count |-> f.domination_count,
                                  next_front |-> <<>>,
                                  panicked |-> FALSE])
    IN [panicked |-> st.panicked,
        front |-> [dominated_solutions |-> f.dominated_solutions,
                   domination_count |-> st.domination_count,
                   current_front |-> st.next_front,
                   rank |-> RankNext(f.rank)]]

\* Front::rank, Front::is_empty, Front::current_front_indices, as the client
\* reads them (each stored index converted back by Index::index).
FrontView(I, f) ==
    [rank |-> f.rank,
     indices |-> [k \in 1..Len(f.current_front) |-> Index_index(I, f.current_front[k])]]

----------------------------------------------------------------------------
(* non_dominated_sort.rs: NonDominatedSort::new *)

\* SolutionWithIndex { solution, index }
SolutionWithIndex(e) == [solution |-> e.solution, index |-> e.index]

\* The match on the capability's answer for p = entries[p_i], q = entries[q_i].
EntryMatchOrd(o, p_i, q_i, st) ==
    IF o = "Less"
    THEN [st EXCEPT !.entries[p_i].dominated_solutions = Append(@, st.entries[q_i].index),
                    !.entries[q_i].domination_count = @ + 1]
    ELSE IF o = "Greater"
    THEN [st EXCEPT !.entries[q_i].dominated_solutions = Append(@, st.entries[p_i].index),
                    !.entries[p_i].domination_count = @ + 1]
    ELSE st

\* for q in tail_slice.iter_mut(), from position q_i on; p is entries[mid - 1]
RECURSIVE TailLoop(_, _, _, _)
TailLoop(d, p_i, q_i, st) ==
    IF q_i >= Len0(st.entries) THEN st
    ELSE TailLoop(d, p_i, q_i + 1,
            EntryMatchOrd(domination_ord(d, st.entries[p_i].solution,
                                            st.entries[q_i].solution),
                          p_i, q_i,
                          [st EXCEPT !.calls = Append(@, <<p_i, q_i>>)]))

\* The push without the test of the count.
EntryRowEndAlways(p_i, st) ==
    [st EXCEPT !.current_front.solutions =
                   Append(@, SolutionWithIndex(st.entries[p_i]))]

\* if p.domination_count == 0 { current_front.solutions.push(..) }
EntryRowEnd(p_i, st) ==
    IF st.entries[p_i].domination_count = 0
    THEN [st EXCEPT !.current_front.solutions =
                        Append(@, SolutionWithIndex(st.entries[p_i]))]
    ELSE st

\* The loop with the tail slice starting at p itself instead of after it.
RECURSIVE MidLoopFromSelf(_, _, _)
MidLoopFromSelf(d, mid, st) ==
    IF mid >= Len0(st.entries) + 1 THEN st
    ELSE MidLoopFromSelf(d, mid + 1,
            EntryRowEnd(mid - 1, TailLoop(d, mid - 1, mid - 1, st)))

\* for mid in 1..entries.len() + 1
RECURSIVE MidLoop(_, _, _)
MidLoop(d, mid, st) ==
    IF mid >= Len0(st.entries) + 1 THEN st
    ELSE MidLoop(d, mid + 1, EntryRowEnd(mid - 1, TailLoop(d, mid - 1, mid, st)))

\* NonDominatedSort::new(solutions, domination)
NonDominatedSort_new(sols, d) ==
    LET st == MidLoop(d, 1,
                [entries |-> [i \in DOMAIN sols |->
                                 [solution |-> sols[i],
                                  index |-> i,
                                  domination_count |-> 0,
                                  dominated_solutions |-> <<>>]],
                 current_front |-> [rank |-> 0, solutions |-> <<>>],
                 calls |-> <<>>])
    IN [sort |-> [entries |-> st.entries, current_front |-> st.current_front],
        calls |-> st.calls]

----------------------------------------------------------------------------
(* non_dominated_sort.rs: Iterator::next *)

\* The body with the test for zero made before the decrement.
PopStepTestFirst(q_i, st) ==
    IF ~(st.entries[q_i].domination_count > 0)
    THEN [st EXCEPT !.panicked = TRUE]
    ELSE LET s1 == [st EXCEPT !.entries[q_i].domination_count = @ - 1]
         IN IF st.entries[q_i].domination_count = 0
            THEN [s1 EXCEPT !.next_front.solutions =
                                Append(@, [solution |-> s1.entries[q_i].solution,
                                           index |-> q_i])]
            ELSE s1

\* The body of the while-let for the popped q_i: the debug_assert, the
\* decrement, the push. A failed debug_assert stops the run (debug build).
PopStep(q_i, st) ==
    IF ~(st.entries[q_i].domination_count > 0)
    THEN [st EXCEPT !.panicked = TRUE]
    ELSE LET s1 == [st EXCEPT !.entries[q_i].domination_count = @ - 1]
         IN IF s1.entries[q_i].domination_count = 0
            THEN [s1 EXCEPT !.next_front.solutions =
                                Append(@, [solution |-> s1.entries[q_i].solution,
                                           index |-> q_i])]
            ELSE s1

\* while let Some(q_i) = self.entries[p.index].dominated_solutions.pop_front()
RECURSIVE PopLoop(_, _)
PopLoop(p_index, st) ==
    IF st.panicked \/ st.entries[p_index].dominated_solutions = <<>> THEN st
    ELSE LET q_i == Head(st.entries[p_index].dominated_solutions)
         IN PopLoop(p_index,
                PopStep(q_i, [st EXCEPT !.entries[p_index].dominated_solutions = Tail(@)]))

\* for p in self.current_front.solutions.iter(), from position k on
RECURSIVE CurrentLoop(_, _, _)
CurrentLoop(cur, k, st) ==
    IF k > Len(cur.solutions) THEN st
    ELSE CurrentLoop(cur, k + 1, PopLoop(cur.solutions[k].index, st))

\* Some(current_front) also for an empty front.
NextItemAlways(current_front) == current_front

\* The value next() returns for the front that was current:
\* None for an empty front, Some(current_front) otherwise.
NextItem(current_front) ==
    IF current_front.solutions = <<>> THEN None ELSE current_front

\* Iterator::next(&mut self): the engine afterwards and the returned Option.
NonDominatedSort_next(s) ==
    LET st == CurrentLoop(s.current_front, 1,
                [entries |-> s.entries,
                 next_front |-> [rank |-> s.current_front.rank + 1, solutions |-> <<>>],
                 panicked |-> FALSE])
    IN [panicked |-> st.panicked,
        sort |-> [entries |-> st.entries, current_front |-> st.next_front],
        item |-> NextItem(s.current_front)]

\* Front::solutions_indices_only, with the front's rank: what a client reads.
ItemView(item) ==
    IF item = None THEN None
    ELSE [rank |-> item.rank,
          indices |-> [k \in 1..Len(item.solutions) |-> item.solutions[k].index]]

----------------------------------------------------------------------------
(* non_dominated_sort.rs: pareto_fronts, pareto_fronts_stop_at *)

\* self.into_iter().collect(): next() until it returns None
RECURSIVE Collect(_, _)
Collect(s, acc) ==
    LET r == NonDominatedSort_next(s)
    IN IF r.panicked THEN [panicked |-> TRUE, fronts |-> acc]
       ELSE IF r.item = None THEN [panicked |-> FALSE, fronts |-> acc]
       ELSE Collect(r.sort, Append(acc, r.item))

\* NonDominatedSort::pareto_fronts(self)
pareto_fronts(s) == Collect(s, <<>>)

\* A test that breaks one solution short of the threshold.
StopTestEarly(found_solutions, max) == found_solutions + 1 >= max

\* if found_solutions >= max_solutions { break; }
StopTest(found_solutions, max) == found_solutions >= max

\* for front in self { found_solutions += ..; fronts.push(front); if .. break }
RECURSIVE StopLoop(_, _, _, _)
StopLoop(s, max, found_solutions, acc) ==
    LET r == NonDominatedSort_next(s)
    IN IF r.panicked THEN [panicked |-> TRUE, fronts |-> acc]
       ELSE IF r.item = None THEN [panicked |-> FALSE, fronts |-> acc]
       ELSE LET found == found_solutions + Len(r.item.solutions)
                fs == Append(acc, r.item)
            IN IF StopTest(found, max)
               THEN [panicked |-> FALSE, fronts |-> fs]
               ELSE StopLoop(r.sort, max, found, fs)

\* NonDominatedSort::pareto_fronts_stop_at(self, max_solutions)
pareto_fronts_stop_at(s, max) == StopLoop(s, max, 0, <<>>)

\* The returned Vec<Front> as a client reads it.
FrontsView(fs) == [k \in 1..Len(fs) |-> ItemView(fs[k])]

----------------------------------------------------------------------------
(* non_dominated_sort_impl.rs: NonDominatedSortFront, the cursor with isize
   counts and usize indices *)

\* The match on the capability's answer for the pair (p_i, q_i).
FrontMatchOrd(o, p_i, q_i, st) ==
    IF o = "Less"
    THEN [st EXCEPT !.dominated_solutions[p_i] = Append(@, q_i),
                    !.domination_count[q_i] = @ + 1]
    ELSE IF o = "Greater"
    THEN [st EXCEPT !.dominated_solutions[q_i] = Append(@, p_i),
                    !.domination_count[p_i] = @ + 1]
    ELSE st

\* while let Some((q_i, q)) = pair_iter.next(), from q_i on
RECURSIVE FrontPairLoop(_, _, _, _, _)
FrontPairLoop(sols, d, p_i, q_i, st) ==
    IF q_i >= Len0(sols) THEN st
    ELSE FrontPairLoop(sols, d, p_i, q_i + 1,
            FrontMatchOrd(domination_ord(d, sols[p_i], sols[q_i]), p_i, q_i,
                          [st EXCEPT !.calls = Append(@, <<p_i, q_i>>)]))

\* if domination_count[p_i] == 0 { current_front.push(p_i) }
FrontRowEnd(p_i, st) ==
    IF st.domination_count[p_i] = 0
    THEN [st EXCEPT !.current_front = Append(@, p_i)]
    ELSE st

\* while let Some((p_i, p)) = iter.next(), from p_i on
RECURSIVE FrontRowLoop(_, _, _, _)
FrontRowLoop(sols, d, p_i, st) ==
    IF p_i >= Len0(st.domination_count) THEN st
    ELSE FrontRowLoop(sols, d, p_i + 1,
            FrontRowEnd(p_i, FrontPairLoop(sols, d, p_i, p_i + 1, st)))

\* non_dominated_sort(solutions, domination) -> NonDominatedSortFront
impl_non_dominated_sort(sols, d) ==
    LET st == FrontRowLoop(sols, d, 0,
                 [dominated_solutions |-> [i \in DOMAIN sols |-> <<>>],
                  domination_count |-> [i \in DOMAIN sols |-> 0],
                  current_front |-> <<>>,
                  calls |-> <<>>])
    IN [front |-> [dominated_solutions |-> st.dominated_solutions,
                   domination_count |-> st.domination_count,
                   current_front |-> st.current_front,
                   rank |-> 0],
        calls |-> st.calls]

\* The body of the inner loop for q_i: the debug_assert, the decrement, the
\* push. A failed debug_assert stops the run (debug build).
FrontDecStep(q_i, st) ==
    IF st.panicked THEN st
    ELSE IF ~(st.domination_count[q_i] > 0)
    THEN [st EXCEPT !.panicked = TRUE]
    ELSE LET s1 == [st EXCEPT !.domination_count[q_i] = @ - 1]
         IN IF s1.domination_count[q_i] = 0
            THEN [s1 EXCEPT !.next_front = Append(@, q_i)]
            ELSE s1

\* for &q_i in dominated_solutions[p_i].iter(), from position k on
RECURSIVE FrontDominatedLoop(_, _, _)
FrontDominatedLoop(qs, k, st) ==
    IF k > Len(qs) THEN st
    ELSE FrontDominatedLoop(qs, k + 1, FrontDecStep(qs[k], st))

\* for p_i in current_front.into_iter(), from position k on
RECURSIVE FrontFrontLoop(_, _, _)
FrontFrontLoop(f, k, st) ==
    IF k > Len(f.current_front) THEN st
    ELSE FrontFrontLoop(f, k + 1,
            FrontDominatedLoop(f.dominated_solutions[f.current_front[k]], 1, st))

\* NonDominatedSortFront::next_front(self)
NonDominatedSortFront_next_front(f) ==
    LET st == FrontFrontLoop(f, 1, [domination_count |-> f.domination_count,
                                    next_front |-> <<>>,
                                    panicked |-> FALSE])
    IN [panicked |-> st.panicked,
        front |-> [dominated_solutions |-> f.dominated_solutions,
                   domination_count |-> st.domination_count,
                   current_front |-> st.next_front,
                   rank |-> f.rank + 1]]

\* rank(), current_front_indices() as the client reads them.
NonDominatedSortFrontView(f) == [rank |-> f.rank, indices |-> f.current_front]

----------------------------------------------------------------------------
(* non_dominated_sort_impl.rs: NonDominatedSort, the engine that assigns the
   ranks in its constructor. `entries` is a Vec that shrinks: position e of
   the code is position e + 1 of the sequence. *)

\* The match on the capability's answer for p = entries[p_i], q = entries[q_i].
RankedMatchOrd(o, p_i, q_i, st) ==
    LET p == st.entries[p_i + 1]
        q == st.entries[q_i + 1]
    IN IF o = "Less"
       THEN [st EXCEPT !.entries[p_i + 1].dominated_solutions = Append(@, q.index),
                       !.dominations[q.index].domination_count = @ + 1]
       ELSE IF o = "Greater"
       THEN [st EXCEPT !.entries[q_i + 1].dominated_solutions = Append(@, p.index),
                       !.dominations[p.index].domination_count = @ + 1]
       ELSE st

\* for q in iter, from position q_i on; p is entries[start]
RECURSIVE RankedTailLoop(_, _, _, _)
RankedTailLoop(d, start, q_i, st) ==
    IF q_i >= Len(st.entries) THEN st
    ELSE RankedTailLoop(d, start, q_i + 1,
            RankedMatchOrd(domination_ord(d, st.entries[start + 1].solution,
                                             st.entries[q_i + 1].solution),
                           start, q_i,
                           [st EXCEPT !.calls = Append(@, <<start, q_i>>)]))

\* for start in 0..entries.len()
RECURSIVE StartLoop(_, _, _)
StartLoop(d, start, st) ==
    IF start >= Len(st.entries) THEN st
    ELSE StartLoop(d, start + 1, RankedTailLoop(d, start, start + 1, st))

\* Vec::swap_remove(e_i): the Vec afterwards (the last element takes the
\* place of the removed one).
swap_remove(v, e_i) ==
    IF e_i + 1 = Len(v) THEN SubSeq(v, 1, Len(v) - 1)
    ELSE [SubSeq(v, 1, Len(v) - 1) EXCEPT ![e_i + 1] = v[Len(v)]]

\* The body of the loop over the removed entry's dominated solutions: the
\* debug_assert, the decrement, the mark `rank - 1` for the next round.
MarkStep(q_i, rank, st) ==
    IF st.panicked THEN st
    ELSE IF ~(st.dominations[q_i].domination_count > 0)
    THEN [st EXCEPT !.panicked = TRUE]
    ELSE LET c == st.dominations[q_i].domination_count - 1
         IN [st EXCEPT !.dominations[q_i].domination_count =
                           IF c = 0 THEN rank - 1 ELSE c]

\* for q_i in entry.dominated_solutions.into_iter(), from position k on
RECURSIVE MarkLoop(_, _, _, _)
MarkLoop(qs, k, rank, st) ==
    IF k > Len(qs) THEN st
    ELSE MarkLoop(qs, k + 1, rank, MarkStep(qs[k], rank, st))

\* The inner loop over e_i: an entry whose count equals rank is removed and
\* its dominated solutions are lowered, e_i staying; otherwise e_i += 1.
RECURSIVE ScanLoop(_, _, _)
ScanLoop(e_i, rank, st) ==
    IF st.panicked \/ e_i >= Len(st.entries) THEN st
    ELSE LET entry == st.entries[e_i + 1]
         IN IF st.dominations[entry.index].domination_count = rank
            THEN ScanLoop(e_i, rank,
                    MarkLoop(entry.dominated_solutions, 1, rank,
                             [st EXCEPT !.entries = swap_remove(@, e_i)]))
            ELSE ScanLoop(e_i + 1, rank, st)

\* The outer loop: one round for each rank 0, -1, -2, .. until entries is
\* empty. A round that removes no entry leaves only entries of positive count,
\* which no later rank equals: the loop then never ends (`diverged`).
RECURSIVE RankLoop(_, _)
RankLoop(rank, st) ==
    IF st.panicked THEN [outcome |-> "panicked", st |-> st, rank |-> rank]
    ELSE IF st.entries = <<>> THEN [outcome |-> "returned", st |-> st, rank |-> rank]
    ELSE LET s1 == ScanLoop(0, rank, st)
         IN IF ~s1.panicked /\ Len(s1.entries) = Len(st.entries)
            THEN [outcome |-> "diverged", st |-> s1, rank |-> rank]
            ELSE RankLoop(rank - 1, s1)

\* NonDominatedSort::new(solutions, domination) of non_dominated_sort_impl.rs
NonDominatedSortImpl_new(sols, d) ==
    LET s0 == StartLoop(d, 0,
                 [entries |-> [k \in 1..Len0(sols) |->
                                  [solution |-> sols[k - 1],
                                   index |-> k - 1,
                                   dominated_solutions |-> <<>>]],
                  dominations |-> [i \in DOMAIN sols |-> [domination_count |-> 0]],
                  calls |-> <<>>,
                  panicked |-> FALSE])
        r == RankLoop(0, s0)
    IN [outcome |-> r.outcome,
        sort |-> [entries |-> r.st.entries,
                  current_rank |-> 0,
                  max_rank |-> r.rank,
                  dominations |-> r.st.dominations],
        calls |-> s0.calls]

\* dominations.iter().enumerate().filter(count == rank).map(index), from i on
RECURSIVE FilterRank(_, _, _)
FilterRank(dominations, i, rank) ==
    IF i >= Len0(dominations) THEN <<>>
    ELSE (IF dominations[i].domination_count = rank THEN <<[index |-> i]>> ELSE <<>>)
             \o FilterRank(dominations, i + 1, rank)

\* Iterator::next(&mut self) of non_dominated_sort_impl.rs
NonDominatedSortImpl_next(s) ==
    LET nf == [rank |-> -s.current_rank,
               solutions |-> FilterRank(s.dominations, 0, s.current_rank)]
    IN IF nf.solutions = <<>>
       THEN [sort |-> s, item |-> None]
       ELSE [sort |-> [s EXCEPT !.current_rank = @ - 1], item |-> nf]

----------------------------------------------------------------------------
(* The inputs *)

\* The positions i < j of an input of n solutions.
Pairs(n) == {pr \in (0..(n - 1)) \X (0..(n - 1)) : pr[1] < pr[2]}

\* Any capability on n opaque objects: one answer for each pair i < j.
TableCapabilities(n) ==
    {[kind |-> "table", ord |-> t] : t \in [Pairs(n) -> Ordering]}

\* Any answers at all on n opaque objects: one for each ordered pair, with no
\* relation between the answer for (i, j), for (j, i) and for (i, i).
FullCapabilities(n) ==
    {[kind |-> "full", ord |-> t] :
        t \in [(0..(n - 1)) \X (0..(n - 1)) -> Ordering]}

OpaqueSolutions(n) == [i \in 0..(n - 1) |-> Opaque(i)]

\* helper::get_solutions() of the tests
get_solutions ==
    [i \in 0..4 |-> CASE i = 0 -> <<1, 2>>
                      [] i = 1 -> <<1, 2>>
                      [] i = 2 -> <<2, 1>>
                      [] i = 3 -> <<1, 3>>
                      [] i = 4 -> <<0, 2>>]

\* create_solutions_with_n_fronts(n, n_fronts).0: the solutions
create_solutions_with_n_fronts(n, n_fronts) ==
    [k \in 0..(n * n_fronts - 1) |->
        LET g == k \div n
            i == k % n
        IN <<g + i, g + n - i>>]

\* create_solutions_with_n_fronts(n, n_fronts).1: the expected fronts
expected_fronts(n, n_fronts) ==
    [g \in 1..n_fronts |-> [i \in 1..n |-> (g - 1) * n + (i - 1)]]

TupleCapability == [kind |-> "tuple"]

\* The "dominates" relation of capability d on the solutions sols is a strict
\* partial order: irreflexive, asymmetric, transitive.
StrictPartialOrderOn(sols, d) ==
    /\ \A i \in DOMAIN sols : ~dominates(d, sols[i], sols[i])
    /\ \A i, j \in DOMAIN sols :
          dominates(d, sols[i], sols[j]) => ~dominates(d, sols[j], sols[i])
    /\ \A i, j \in DOMAIN sols :
          dominates(d, sols[i], sols[j]) =>
              \A k \in DOMAIN sols :
                  dominates(d, sols[j], sols[k]) => dominates(d, sols[i], sols[k])

OrderCapabilities(n) ==
    {d \in TableCapabilities(n) : StrictPartialOrderOn(OpaqueSolutions(n), d)}

SyntheticInputs ==
    {create_solutions_with_n_fronts(n, nf) : n \in 1..MaxGroupSize, nf \in 1..MaxFronts}

----------------------------------------------------------------------------
(* The state machine: a client's calls *)

N == Len0(solutions)

Init ==
    /\ \/ \E n \in 0..MaxN :
            /\ solutions = OpaqueSolutions(n)
            /\ domination \in TableCapabilities(n)
       \/ \E n \in 0..MaxOrderN :
            /\ solutions = OpaqueSolutions(n)
            /\ domination \in OrderCapabilities(n)
       \/ /\ solutions \in SyntheticInputs \cup {get_solutions}
          /\ domination = TupleCapability
    /\ pc = "start"
    /\ index_type = "none"
    /\ front = NoValue
    /\ nds = NoValue
    /\ yielded = <<>>
    /\ fronts = NoValue
    /\ max_solutions = -1
    /\ calls = <<>>

\* let f = non_dominated_sort::<_, _, I>(&solutions, &domination)
Sort(I) ==
    /\ pc = "start"
    /\ LET r == non_dominated_sort(solutions, domination, I)
       IN /\ pc' = IF r.panicked THEN "panicked" ELSE "cursor"
          /\ front' = r.front
          /\ calls' = r.calls
          /\ yielded' = IF r.panicked THEN <<>> ELSE <<FrontView(I, r.front)>>
    /\ index_type' = I
    /\ UNCHANGED <<solutions, domination, nds, fronts, max_solutions>>

\* f = f.next_front()
NextFront ==
    /\ pc = "cursor"
    /\ front.rank < MaxCalls
    /\ LET r == next_front(index_type, front)
       IN /\ pc' = IF r.panicked THEN "panicked" ELSE "cursor"
          /\ front' = r.front
          /\ yielded' = IF r.panicked THEN yielded
                        ELSE Append(yielded, FrontView(index_type, r.front))
    /\ UNCHANGED <<solutions, domination, index_type, nds, fronts, max_solutions, calls>>

\* let mut sort = NonDominatedSort::new(&solutions, &domination)
New ==
    /\ pc = "start"
    /\ LET r == NonDominatedSort_new(solutions, domination)
       IN /\ nds' = r.sort
          /\ calls' = r.calls
    /\ pc' = "iter"
    /\ UNCHANGED <<solutions, domination, index_type, front, yielded, fronts, max_solutions>>

\* sort.next()
Next_ ==
    /\ pc = "iter"
    /\ Len(yielded) < MaxCalls
    /\ LET r == NonDominatedSort_next(nds)
       IN /\ pc' = IF r.panicked THEN "panicked" ELSE "iter"
          /\ nds' = r.sort
          /\ yielded' = IF r.panicked THEN yielded ELSE Append(yielded, ItemView(r.item))
    /\ UNCHANGED <<solutions, domination, index_type, front, fronts, max_solutions, calls>>

\* NonDominatedSort::new(..).pareto_fronts(): the engine is consumed
ParetoFronts ==
    /\ pc = "iter"
    /\ yielded = <<>>
    /\ LET r == pareto_fronts(nds)
       IN /\ pc' = IF r.panicked THEN "panicked" ELSE "collected"
          /\ fronts' = FrontsView(r.fronts)
    /\ nds' = NoValue
    /\ UNCHANGED <<solutions, domination, index_type, front, yielded, max_solutions, calls>>

\* NonDominatedSort::new(..).pareto_fronts_stop_at(max): the engine is consumed
ParetoFrontsStopAt(max) ==
    /\ pc = "iter"
    /\ yielded = <<>>
    /\ LET r == pareto_fronts_stop_at(nds, max)
       IN /\ pc' = IF r.panicked THEN "panicked" ELSE "stopped"
          /\ fronts' = FrontsView(r.fronts)
    /\ max_solutions' = max
    /\ nds' = NoValue
    /\ UNCHANGED <<solutions, domination, index_type, front, yielded, calls>>

Next ==
    \/ \E I \in {"usize", "narrow"} : Sort(I)
    \/ NextFront
    \/ New
    \/ Next_
    \/ ParetoFronts
    \/ \E max \in 0..(N + 1) : ParetoFrontsStopAt(max)

Spec == Init /\ [][Next]_vars

\* A client holding a capability that answers every ordered pair on its own.
InitFull ==
    /\ \E n \in 0..MaxFullN :
          /\ solutions = OpaqueSolutions(n)
          /\ domination \in FullCapabilities(n)
    /\ pc = "start"
    /\ index_type = "none"
    /\ front = NoValue
    /\ nds = NoValue
    /\ yielded = <<>>
    /\ fronts = NoValue
    /\ max_solutions = -1
    /\ calls = <<>>

\* The sort and its advances, by either engine.
NextSort ==
    \/ \E I \in {"usize", "narrow"} : Sort(I)
    \/ NextFront
    \/ New
    \/ Next_

SpecFull == InitFull /\ [][NextSort]_vars

\* let f = non_dominated_sort(&solutions, &domination) of
\* non_dominated_sort_impl.rs
SortFront ==
    /\ pc = "start"
    /\ LET r == impl_non_dominated_sort(solutions, domination)
       IN /\ front' = r.front
          /\ calls' = r.calls
          /\ yielded' = <<NonDominatedSortFrontView(r.front)>>
    /\ pc' = "front"
    /\ UNCHANGED <<solutions, domination, index_type, nds, fronts, max_solutions>>

\* f = f.next_front() of non_dominated_sort_impl.rs
SortFrontNext ==
    /\ pc = "front"
    /\ front.rank < MaxCalls
    /\ LET r == NonDominatedSortFront_next_front(front)
       IN /\ pc' = IF r.panicked THEN "panicked" ELSE "front"
          /\ front' = r.front
          /\ yielded' = IF r.panicked THEN yielded
                        ELSE Append(yielded, NonDominatedSortFrontView(r.front))
    /\ UNCHANGED <<solutions, domination, index_type, nds, fronts, max_solutions, calls>>

\* let mut sort = NonDominatedSort::new(&solutions, &domination) of
\* non_dominated_sort_impl.rs; a constructor that never ends leaves the
\* client at "diverged".
NewRanked ==
    /\ pc = "start"
    /\ LET r == NonDominatedSortImpl_new(solutions, domination)
       IN /\ pc' = IF r.outcome = "returned" THEN "ranked" ELSE r.outcome
          /\ nds' = IF r.outcome = "returned" THEN r.sort ELSE NoValue
          /\ calls' = r.calls
    /\ UNCHANGED <<solutions, domination, index_type, front, yielded, fronts, max_solutions>>

\* sort.next() of non_dominated_sort_impl.rs
NextRanked ==
    /\ pc = "ranked"
    /\ Len(yielded) < MaxCalls
    /\ LET r == NonDominatedSortImpl_next(nds)
       IN /\ nds' = r.sort
          /\ yielded' = Append(yielded, ItemView(r.item))
    /\ UNCHANGED <<solutions, domination, pc, index_type, front, fronts, max_solutions, calls>>

\* A client of any of the four engines.
NextEngines ==
    \/ \E I \in {"usize", "narrow"} : Sort(I)
    \/ NextFront
    \/ New
    \/ Next_
    \/ SortFront
    \/ SortFrontNext
    \/ NewRanked
    \/ NextRanked

SpecEngines == Init /\ [][NextEngines]_vars

----------------------------------------------------------------------------
(* Vocabulary of the properties *)

Indices == 0..(N - 1)

\* The capability says solution i dominates solution j.
Dominates(i, j) == dominates(domination, solutions[i], solutions[j])

\* The capability's "dominates" relation on the input is a strict partial order.
IsStrictPartialOrder == StrictPartialOrderOn(solutions, domination)

\* A batch call (pareto_fronts, pareto_fronts_stop_at) has returned its Vec.
Returned == pc \in {"collected", "stopped"}

\* The fronts the client has been handed so far (a None of next() is no front).
FrontSet ==
    {yielded[k] : k \in {m \in 1..Len(yielded) : yielded[m] /= None}}
        \cup (IF Returned THEN {fronts[k] : k \in 1..Len(fronts)} ELSE {})

Members(f) == {f.indices[k] : k \in 1..Len(f.indices)}

\* How often index i occurs as a member of the fronts handed out so far.
Occurrences(i) ==
    Cardinality({pr \in (1..Len(yielded)) \X (1..(N + 1)) :
                    /\ yielded[pr[1]] /= None
                    /\ pr[2] <= Len(yielded[pr[1]].indices)
                    /\ yielded[pr[1]].indices[pr[2]] = i})
    + (IF Returned
       THEN Cardinality({pr \in (1..Len(fronts)) \X (1..(N + 1)) :
                    /\ pr[2] <= Len(fronts[pr[1]].indices)
                    /\ fronts[pr[1]].indices[pr[2]] = i})
       ELSE 0)

\* The client has collected all fronts: pareto_fronts returned, next() said
\* None, or the cursor is empty.
Exhausted ==
    \/ pc = "collected"
    \/ pc = "iter" /\ yielded /= <<>> /\ yielded[Len(yielded)] = None
    \/ pc = "cursor" /\ front.current_front = <<>>

NonEmptyFronts == {f \in FrontSet : f.indices /= <<>>}

----------------------------------------------------------------------------
(* C1 - C4: the fronts of a strict partial order *)

\* C1 (partition): for a strict-partial-order capability, no index is ever
\* handed out twice (in one front or in two), no front ever holds anything
\* but an input position and, once all fronts are collected (pareto_fronts,
\* next() until None, next_front until the cursor is empty), every index
\* 0..N-1 has been handed out exactly once.
C1_Partition ==
    (IsStrictPartialOrder /\ pc /= "panicked") =>
        /\ \A f \in FrontSet : Members(f) \subseteq Indices
        /\ \A i \in Indices : Occurrences(i) <= 1
        /\ Exhausted => \A i \in Indices : Occurrences(i) = 1

C1_Witness ==
    /\ IsStrictPartialOrder
    /\ pc = "cursor"
    /\ front.current_front = <<>>
    /\ N = 4
    /\ Cardinality(NonEmptyFronts) = 3
    /\ front.rank = 3

\* C2 (rank consistency): for a strict-partial-order capability, no member
\* of a front of a later rank dominates a member of a front of an earlier rank.
C2_RankConsistency ==
    IsStrictPartialOrder =>
        \A f1, f2 \in FrontSet :
            f1.rank < f2.rank =>
                \A i \in Members(f1), j \in Members(f2) : ~Dominates(j, i)

C2_Witness ==
    /\ IsStrictPartialOrder
    /\ pc = "iter"
    /\ \E f1, f2 \in FrontSet :
          /\ f1.rank < f2.rank
          /\ \E i \in Members(f1), j \in Members(f2) : Dominates(i, j)
          /\ \E i \in Members(f1), j \in Members(f2) : i > j

\* C3 (front internal incomparability): for a strict-partial-order capability,
\* the capability answers Equal for any two distinct members of one front.
C3_Incomparable ==
    IsStrictPartialOrder =>
        \A f \in FrontSet :
            \A i, j \in Members(f) :
                i /= j => domination_ord(domination, solutions[i], solutions[j]) = "Equal"

C3_Witness ==
    /\ IsStrictPartialOrder
    /\ pc = "collected"
    /\ Len(fronts) >= 2
    /\ \E f \in FrontSet : Cardinality(Members(f)) >= 2

\* The members of the fronts of rank below r.
Earlier(r) == UNION {Members(f) : f \in {g \in FrontSet : g.rank < r}}

\* The indices not in an earlier front that no index outside the earlier
\* fronts dominates.
Peel(r) ==
    {i \in Indices \ Earlier(r) : \A j \in Indices \ Earlier(r) : ~Dominates(j, i)}

\* C4 (exact peeling): for a strict-partial-order capability, the front of
\* rank k is exactly the set of indices outside the fronts 0..k-1 that no
\* index outside the fronts 0..k-1 dominates (where next() says None, or
\* pareto_fronts() ends, that set is empty), and every member of a front of
\* rank k >= 1 is dominated by a member of the front of rank k-1.
C4_ExactPeeling ==
    (IsStrictPartialOrder /\ pc /= "panicked") =>
        /\ \A f \in FrontSet :
              /\ Members(f) = Peel(f.rank)
              /\ f.rank >= 1 =>
                    \A i \in Members(f) :
                        \E g \in FrontSet :
                            /\ g.rank = f.rank - 1
                            /\ \E j \in Members(g) : Dominates(j, i)
        /\ pc = "iter" =>
              \A k \in 1..Len(yielded) : yielded[k] = None => Peel(k - 1) = {}
        /\ pc = "collected" => Peel(Len(fronts)) = {}

C4_Witness ==
    /\ IsStrictPartialOrder
    /\ pc = "iter"
    /\ \E f \in FrontSet :
          /\ f.rank = 2
          /\ Members(f) /= {}
          /\ \E i \in Indices \ Members(f) : \A j \in Indices : ~Dominates(i, j) /\ ~Dominates(j, i)

----------------------------------------------------------------------------
(* C5: the worked example of the tests *)

IsExample == domination = TupleCapability /\ solutions = get_solutions

ExampleFronts ==
    <<[rank |-> 0, indices |-> <<2, 4>>],
      [rank |-> 1, indices |-> <<0, 1>>],
      [rank |-> 2, indices |-> <<3>>]>>

\* C5 (worked example): on [(1,2), (1,2), (2,1), (1,3), (0,2)] with the tuple
\* dominance, next() yields rank 0 = [2, 4], rank 1 = [0, 1], rank 2 = [3] and
\* then None; pareto_fronts() returns exactly these three fronts; the cursor
\* shows the same three fronts and then an empty front of rank 3.
C5_WorkedExample ==
    IsExample =>
        /\ pc = "iter" =>
              \A k \in 1..Len(yielded) :
                  /\ k <= 3 => yielded[k] = ExampleFronts[k]
                  /\ k = 4 => yielded[k] = None
        /\ pc = "collected" => fronts = ExampleFronts
        /\ pc = "cursor" =>
              \A k \in 1..Len(yielded) :
                  /\ k <= 3 => yielded[k] = ExampleFronts[k]
                  /\ k = 4 => yielded[k] = [rank |-> 3, indices |-> <<>>]
        /\ (index_type = "usize" \/ N <= NarrowMax) => pc /= "panicked"

C5_Witness ==
    /\ IsExample
    /\ pc = "cursor"
    /\ Len(yielded) = 4
    /\ front.rank = 3

----------------------------------------------------------------------------
(* C6, C7: pareto_fronts_stop_at *)

\* What pareto_fronts() returns on the same input.
AllFronts ==
    FrontsView(pareto_fronts(NonDominatedSort_new(solutions, domination).sort).fronts)

IsPrefix(a, b) == Len(a) <= Len(b) /\ \A k \in 1..Len(a) : a[k] = b[k]

RECURSIVE TotalMembers(_, _)
\* The number of members of the first n fronts of fs.
TotalMembers(fs, n) == IF n = 0 THEN 0 ELSE Len(fs[n].indices) + TotalMembers(fs, n - 1)

\* C6 (early-stop correctness): pareto_fronts_stop_at(K) returns a prefix of
\* what pareto_fronts() returns on the same input, whole fronts only; the
\* members of the returned fronts number at least K unless all fronts are
\* returned; when K exceeds N all fronts are returned; and for a
\* strict-partial-order capability and K <= N they number at least K.
C6_EarlyStopPrefix ==
    pc = "stopped" =>
        /\ IsPrefix(fronts, AllFronts)
        /\ TotalMembers(fronts, Len(fronts)) >= max_solutions \/ fronts = AllFronts
        /\ max_solutions > N => fronts = AllFronts
        /\ (IsStrictPartialOrder /\ max_solutions <= N) =>
              TotalMembers(fronts, Len(fronts)) >= max_solutions

C6_Witness ==
    /\ pc = "stopped"
    /\ IsStrictPartialOrder
    /\ Len(AllFronts) = 3
    /\ Len(fronts) = 2
    /\ TotalMembers(fronts, 2) > max_solutions

\* C7 (stops as soon as the threshold is reached), as claimed: for every K,
\* K = 0 included, the fronts returned before the last one total less than K.
C7_StopsAtThreshold ==
    (pc = "stopped" /\ fronts /= <<>>) =>
        TotalMembers(fronts, Len(fronts) - 1) < max_solutions

----------------------------------------------------------------------------
(* C8: the precondition of a narrowed index type *)

TrueCount(j) == Cardinality({i \in Indices : Dominates(i, j)})

\* C8 (narrow index precondition): with a narrowed index type of largest
\* value M, non_dominated_sort fails when N exceeds M, before any dominance
\* comparison and before anything is stored; otherwise, and always with the
\* machine-word type, construction does not fail, and every stored index and
\* count converts back to the true position and the true count.
C8_NarrowIndex ==
    index_type /= "none" =>
        /\ (index_type = "narrow" /\ N > NarrowMax) =>
              pc = "panicked" /\ calls = <<>> /\ front = NoValue /\ yielded = <<>>
        /\ (index_type = "usize" \/ N <= NarrowMax) =>
              /\ pc = "cursor"
              /\ front.rank = 0 =>
                    /\ \A j \in Indices :
                          Index_index(index_type, front.domination_count[j]) = TrueCount(j)
                    /\ \A i \in Indices :
                          LET qs == front.dominated_solutions[i]
                          IN /\ {Index_index(index_type, qs[k]) : k \in 1..Len(qs)}
                                    = {j \in Indices : Dominates(i, j)}
                             /\ Len(qs) = Cardinality({j \in Indices : Dominates(i, j)})
                    /\ Members(yielded[1]) = {j \in Indices : TrueCount(j) = 0}
                    /\ Len(yielded[1].indices) = Cardinality(Members(yielded[1]))

C8_Witness ==
    /\ index_type = "narrow"
    /\ N = NarrowMax + 1
    /\ pc = "panicked"

----------------------------------------------------------------------------
(* C9: empty and singleton inputs *)

\* C9 (empty and singleton inputs): for N = 0 there is no front (the cursor
\* is empty with rank 0, the first next() is None, pareto_fronts() is empty)
\* and the capability is never called; for N = 1 there is exactly one front,
\* of rank 0 with the single member 0, and the next advance is exhausted.
C9_EmptyAndSingleton ==
    /\ N = 0 =>
          /\ calls = <<>>
          /\ pc = "cursor" => yielded[1] = [rank |-> 0, indices |-> <<>>]
          /\ pc = "iter" => \A k \in 1..Len(yielded) : yielded[k] = None
          /\ pc = "collected" => fronts = <<>>
          /\ pc /= "panicked"
    /\ N = 1 =>
          /\ calls = <<>>
          /\ pc = "cursor" =>
                \A k \in 1..Len(yielded) :
                    yielded[k] = [rank |-> k - 1, indices |-> IF k = 1 THEN <<0>> ELSE <<>>]
          /\ pc = "iter" =>
                \A k \in 1..Len(yielded) :
                    yielded[k] = IF k = 1 THEN [rank |-> 0, indices |-> <<0>>] ELSE None
          /\ pc = "collected" => fronts = <<[rank |-> 0, indices |-> <<0>>]>>
          /\ pc /= "panicked"

C9_Witness ==
    /\ N = 1
    /\ pc = "iter"
    /\ Len(yielded) = 2

----------------------------------------------------------------------------
(* C10: the synthetic input of n_fronts groups of n tuples *)

ExpectedView(n, n_fronts) ==
    [g \in 1..n_fronts |-> [rank |-> g - 1, indices |-> expected_fronts(n, n_fronts)[g]]]

\* C10 (scaling structure): on create_solutions_with_n_fronts(n, n_fronts)
\* with the tuple dominance, pareto_fronts() returns exactly n_fronts fronts,
\* the front of rank g being [g*n, .., g*n + n - 1] in this order, and the
\* cursor shows the same fronts and is empty after the last group.
C10_Scaling ==
    \A n \in 1..MaxGroupSize, nf \in 1..MaxFronts :
        (domination = TupleCapability /\ solutions = create_solutions_with_n_fronts(n, nf)) =>
            /\ pc = "collected" => fronts = ExpectedView(n, nf)
            /\ pc = "cursor" =>
                  \A k \in 1..Len(yielded) :
                      /\ k <= nf => yielded[k] = ExpectedView(n, nf)[k]
                      /\ k > nf => yielded[k].indices = <<>>
            /\ pc = "iter" =>
                  \A k \in 1..Len(yielded) :
                      /\ k <= nf => yielded[k] = ExpectedView(n, nf)[k]
                      /\ k > nf => yielded[k] = None

C10_Witness ==
    /\ domination = TupleCapability
    /\ solutions = create_solutions_with_n_fronts(3, 3)
    /\ pc = "cursor"
    /\ front.rank = 3
    /\ front.current_front = <<>>

----------------------------------------------------------------------------
(* C11: the order of the members of a front *)

Ascending(seq) == \A a, b \in 1..Len(seq) : a < b => seq[a] < seq[b]

\* C11 (stable front ordering), as claimed: for a strict-partial-order
\* capability the members of every front handed out, of rank 0 and of every
\* later rank, are in ascending index order.
C11_StableOrder ==
    IsStrictPartialOrder => \A f \in FrontSet : Ascending(f.indices)

----------------------------------------------------------------------------
(* C12: what the output depends on *)

\* The answers of the capability for the pairs (i, j) with i < j, and nothing
\* else of it.
UpperAnswers ==
    [kind |-> "table", ord |-> [pr \in Pairs(N) |-> domination.ord[pr]]]

\* The views of the cursor f and of its next k advances.
RECURSIVE CursorViews(_, _, _)
CursorViews(I, f, k) ==
    IF k = 0 THEN <<FrontView(I, f)>>
    ELSE <<FrontView(I, f)>> \o CursorViews(I, next_front(I, f).front, k - 1)

\* The items of k calls of next() on the iterator s.
RECURSIVE IteratorViews(_, _)
IteratorViews(s, k) ==
    IF k = 0 THEN <<>>
    ELSE LET r == NonDominatedSort_next(s)
         IN <<ItemView(r.item)>> \o IteratorViews(r.sort, k - 1)

\* C12 (determinism): the fronts a run hands out (their number, ranks and
\* members in order) are those computed from the input order and the
\* capability's answers for the pairs (i, j) with i < j alone: whatever the
\* capability would answer for (j, i) or (i, i), the run's output is the
\* output for the capability that holds the (i, j) answers only.
C12_Determinism ==
    /\ pc = "cursor" =>
          /\ yielded = CursorViews(index_type,
                          non_dominated_sort(solutions, UpperAnswers, index_type).front,
                          Len(yielded) - 1)
          /\ Len(yielded) = 1 =>
                front = non_dominated_sort(solutions, UpperAnswers, index_type).front
    /\ pc = "iter" =>
          yielded = IteratorViews(NonDominatedSort_new(solutions, UpperAnswers).sort,
                                  Len(yielded))

\* Two solutions with contradictory answers for (0, 1) and (1, 0), sorted and
\* advanced once by the cursor engine.
C12_Witness ==
    /\ domination.kind = "full"
    /\ N = 2
    /\ domination.ord[<<0, 1>>] = "Less"
    /\ domination.ord[<<1, 0>>] = "Less"
    /\ domination.ord[<<0, 0>>] = "Greater"
    /\ pc = "cursor"
    /\ Len(yielded) = 2
    /\ yielded[2].indices = <<1>>

----------------------------------------------------------------------------
(* C13: termination and exhaustion *)

\* The observation at position k of `yielded` carries no index: an empty
\* cursor, or the None of next().
EmptyAt(k) == yielded[k] = None \/ yielded[k].indices = <<>>

\* C13 (termination and exhaustion): for any dominance answers, a run hands
\* out at most N non-empty fronts and the advance after at most N of them
\* finds an empty front; after an empty front every later advance is empty
\* again: next() never returns an empty Some and returns None from then on, an
\* empty cursor advances to an empty cursor, and no index is emitted any more.
\* pareto_fronts() returns, with at most N fronts, none of them empty.
C13_Termination ==
    /\ pc \in {"cursor", "iter"} =>
          /\ Cardinality({k \in 1..Len(yielded) : ~EmptyAt(k)}) <= N
          /\ Len(yielded) > N => EmptyAt(N + 1)
          /\ \A k, m \in 1..Len(yielded) : (EmptyAt(k) /\ k < m) => EmptyAt(m)
    /\ pc = "iter" =>
          \A k \in 1..Len(yielded) : EmptyAt(k) <=> yielded[k] = None
    /\ pc = "cursor" =>
          (front.current_front = <<>> <=> EmptyAt(Len(yielded)))
    /\ pc = "collected" =>
          /\ Len(fronts) <= N
          /\ \A k \in 1..Len(fronts) : fronts[k].indices /= <<>>

\* Three solutions whose answers are no partial order (a dominates b, b
\* dominates c, a and c incomparable), with three fronts, and next() called
\* twice more after the last of them.
C13_Witness ==
    /\ pc = "iter"
    /\ ~IsStrictPartialOrder
    /\ N = 3
    /\ Len(yielded) = 5
    /\ yielded[3] /= None
    /\ yielded[4] = None
    /\ yielded[5] = None

----------------------------------------------------------------------------
(* C14: the effect and the frame of one advance of the cursor *)

\* The dominated lists of the members of the front f, one after the other in
\* the members' stored order: the entries an advance of f scans, in order.
RECURSIVE ScanFrom(_, _)
ScanFrom(f, k) ==
    IF k > Len(f.current_front) THEN <<>>
    ELSE f.dominated_solutions[f.current_front[k]] \o ScanFrom(f, k + 1)

\* How many of the first n scanned entries name q.
HitsUpTo(L, q, n) == Cardinality({m \in 1..n : L[m] = q})

\* The scanned entry at which q's count reaches exactly 0.
ZeroPos(f, L, q) ==
    CHOOSE n \in 1..Len(L) : L[n] = q /\ HitsUpTo(L, q, n) = f.domination_count[q]

AdvanceEffect ==
    LET L == ScanFrom(front, 1)
        new == front'.current_front
    IN /\ front'.rank = front.rank + 1
       /\ solutions' = solutions
       /\ front'.dominated_solutions = front.dominated_solutions
       /\ \A q \in Indices :
             front'.domination_count[q] =
                 front.domination_count[q] - HitsUpTo(L, q, Len(L))
       /\ \A q \in Indices :
             (\A k \in 1..Len(front.current_front) :
                  ~Dominates(front.current_front[k], q))
                 => front'.domination_count[q] = front.domination_count[q]
       /\ {new[k] : k \in 1..Len(new)} =
             {q \in Indices : front.domination_count[q] > 0
                              /\ front'.domination_count[q] = 0}
       /\ \A a, b \in 1..Len(new) :
             a < b => ZeroPos(front, L, new[a]) < ZeroPos(front, L, new[b])

\* C14 (advance step of the cursor): a next_front that returns raises the
\* rank by one; scanning the old front's members in stored order and each
\* member's dominated list in insertion order, it lowers the count of each
\* listed index by one per listing, and the new front holds exactly the
\* indices whose count went from positive to 0, each once, in the order in
\* which they reached 0; the solutions, the dominated lists and the counts of
\* the indices no member of the old front dominates are unchanged.
C14_AdvanceStep ==
    [][(pc = "cursor" /\ pc' = "cursor") => AdvanceEffect]_vars

\* After one advance: a new front whose members reached 0 out of index
\* order.
C14_Witness ==
    /\ pc = "cursor"
    /\ front.rank = 1
    /\ Len(front.current_front) = 2
    /\ front.current_front[1] > front.current_front[2]

----------------------------------------------------------------------------
(* C15: the result of construction *)

\* Either engine, just constructed.
Constructed == (pc = "cursor" /\ front.rank = 0) \/ (pc = "iter" /\ yielded = <<>>)

\* The count, the dominated list and the initial front an engine holds.
CountOf(j) ==
    IF pc = "cursor" THEN Index_index(index_type, front.domination_count[j])
    ELSE nds.entries[j].domination_count

ListOf(i) ==
    IF pc = "cursor"
    THEN [k \in 1..Len(front.dominated_solutions[i]) |->
             Index_index(index_type, front.dominated_solutions[i][k])]
    ELSE nds.entries[i].dominated_solutions

CurrentIndices ==
    IF pc = "cursor"
    THEN [k \in 1..Len(front.current_front) |->
             Index_index(index_type, front.current_front[k])]
    ELSE [k \in 1..Len(nds.current_front.solutions) |->
             nds.current_front.solutions[k].index]

\* C15 (construction result): when construction returns, by either engine and
\* for any answers, the count of every j is the number of i /= j that dominate
\* j; the dominated list of every i holds exactly the indices i dominates,
\* each once; the initial front has rank 0 and holds exactly the indices
\* whose count is 0 after the whole sweep, each once, in ascending index
\* order: the test at the end of p's own row lets in no index whose count is
\* positive in the end.
C15_Construction ==
    Constructed =>
        /\ \A j \in Indices :
              CountOf(j) = Cardinality({i \in Indices \ {j} : Dominates(i, j)})
        /\ \A i \in Indices :
              /\ {ListOf(i)[k] : k \in 1..Len(ListOf(i))}
                     = {j \in Indices \ {i} : Dominates(i, j)}
              /\ Len(ListOf(i)) = Cardinality({j \in Indices \ {i} : Dominates(i, j)})
        /\ {CurrentIndices[k] : k \in 1..Len(CurrentIndices)}
               = {j \in Indices : CountOf(j) = 0}
        /\ Ascending(CurrentIndices)
        /\ (IF pc = "cursor" THEN front.rank ELSE nds.current_front.rank) = 0

\* Constructed by the cursor engine: index 0 is dominated by a later index
\* only (its count is 0 until its own row), index 1 is in the initial front.
C15_Witness ==
    /\ pc = "cursor"
    /\ front.rank = 0
    /\ N = 3
    /\ Dominates(2, 0)
    /\ ~Dominates(1, 0)
    /\ CurrentIndices = <<1, 2>>

----------------------------------------------------------------------------
(* C16: the calls of the capability *)

\* The pairs (p, q) with p < q <= n - 1, row by row from row p on.
RECURSIVE RowOrder(_, _)
RowOrder(p, n) ==
    IF p >= n THEN <<>>
    ELSE [k \in 1..(n - 1 - p) |-> <<p, p + k>>] \o RowOrder(p + 1, n)

\* C16 (pairwise sweep): from the return of construction on, through every
\* later advance and collection, the capability has been called exactly for
\* the pairs (0,1), (0,2), .., (0,N-1), (1,2), .., (N-2,N-1) in this order:
\* once for each unordered pair, always as (i, j) with i < j, never as (j, i)
\* or (i, i), N(N-1)/2 calls in all and none after construction.
C16_PairwiseSweep ==
    (pc /= "start" /\ ~(index_type = "narrow" /\ N > NarrowMax)) =>
        /\ calls = RowOrder(0, N)
        /\ 2 * Len(calls) = N * (N - 1)
        /\ \A k \in 1..Len(calls) : calls[k][1] < calls[k][2]
        /\ \A k, m \in 1..Len(calls) : k /= m => calls[k] /= calls[m]
        /\ \A i, j \in Indices : i < j => \E k \in 1..Len(calls) : calls[k] = <<i, j>>

\* Four solutions, the iterator engine asked for three fronts after
\* construction: still the six calls of construction.
C16_Witness ==
    /\ pc = "iter"
    /\ N = 4
    /\ Len(yielded) = 3
    /\ yielded[3] /= None
    /\ Len(calls) = 6

----------------------------------------------------------------------------
(* C17: the indices of count zero *)

\* The members of the fronts an engine produced before its current front:
\* every observation but the last for the cursor (the last is its current
\* front), every front next() returned for the iterator (its current front is
\* the one the next call returns).
EarlierMembers ==
    UNION {Members(yielded[k]) :
              k \in {m \in 1..(IF pc = "cursor" THEN Len(yielded) - 1 ELSE Len(yielded)) :
                        yielded[m] /= None}}

CurrentMembers == {CurrentIndices[k] : k \in 1..Len(CurrentIndices)}

\* C17 (zero-count invariant): in every state reached from construction by any
\* number of advances, an index is a member of the current front exactly when
\* its count is 0 and it is in no earlier front: the indices of count 0 are
\* the disjoint union of the current front and the fronts produced before,
\* and an index of positive count is in none of them.
C17_ZeroCount ==
    pc \in {"cursor", "iter"} =>
        /\ \A i \in Indices :
              i \in CurrentMembers <=> (CountOf(i) = 0 /\ i \notin EarlierMembers)
        /\ CurrentMembers \cap EarlierMembers = {}
        /\ CurrentMembers \cup EarlierMembers = {i \in Indices : CountOf(i) = 0}
        /\ \A i \in Indices :
              CountOf(i) > 0 => i \notin CurrentMembers \cup EarlierMembers

\* A strict partial order on four solutions after two advances of the
\* cursor: fronts before, a current front, and an index still to come.
C17_Witness ==
    /\ IsStrictPartialOrder
    /\ pc = "cursor"
    /\ N = 4
    /\ front.rank = 2
    /\ CurrentMembers /= {}
    /\ \E i \in Indices : CountOf(i) > 0

----------------------------------------------------------------------------
(* C18: the decrements of the counts *)

\* The dominators of j whose dominated lists have not been scanned yet.
PendingDominators(j) ==
    {i \in Indices \ ({j} \cup EarlierMembers) : Dominates(i, j)}

\* C18 (counts never underflow): for any dominance answers, no advance and no
\* collection ever fails its debug_assert (a run fails in the constructor's
\* length check or not at all); every count stays between 0 and N - 1 and
\* equals the number of dominators whose lists are still to be scanned, so
\* each entry of a dominated list has lowered a count at most once; the
\* iterator's lists are empty once scanned and whole until then; and at the
\* end of a run on a strict partial order every count is 0: each entry was
\* visited exactly once.
C18_NoUnderflow ==
    /\ pc = "panicked" =>
          index_type = "narrow" /\ N > NarrowMax /\ front = NoValue
    /\ pc \in {"cursor", "iter"} =>
          /\ \A j \in Indices :
                /\ CountOf(j) >= 0
                /\ CountOf(j) <= N - 1
                /\ CountOf(j) = Cardinality(PendingDominators(j))
          /\ pc = "iter" =>
                \A i \in Indices :
                    Len(ListOf(i)) =
                        IF i \in EarlierMembers THEN 0
                        ELSE Cardinality({j \in Indices \ {i} : Dominates(i, j)})
          /\ (Exhausted /\ IsStrictPartialOrder) =>
                \A j \in Indices : CountOf(j) = 0

\* Answers that are no partial order (a dominates b, b dominates c, a and c
\* incomparable), advanced twice with the narrowed index type: the second
\* advance lowered the count of c from 1 to 0.
C18_Witness ==
    /\ pc = "cursor"
    /\ index_type = "narrow"
    /\ ~IsStrictPartialOrder
    /\ front.rank = 2
    /\ \E j \in CurrentMembers :
          \E i \in Members(yielded[2]) : Dominates(i, j)

----------------------------------------------------------------------------
(* C19: the four engines *)

\* The non-empty fronts an engine has handed out so far, in order.
Produced == SelectSeq(yielded, LAMBDA f : f /= None /\ f.indices /= <<>>)

\* The run has seen the end: its last observation is empty.
SeenEnd == yielded /= <<>> /\ EmptyAt(Len(yielded))

\* C19 (equivalence of implementations), as claimed: for a
\* strict-partial-order capability the iterator engine, the cursor engine,
\* its isize twin and the rank-tagged engine (whose constructor returns) hand
\* out the same non-empty fronts: as many, with the same ranks and, for every
\* rank, the same member indices in the same order. Each engine's fronts are
\* compared with the fronts pareto_fronts() of the iterator engine returns on
\* the same input.
C19_EngineEquivalence ==
    IsStrictPartialOrder =>
        /\ pc /= "diverged"
        /\ pc \in {"cursor", "iter", "front", "ranked"} =>
              /\ IsPrefix(Produced, AllFronts)
              /\ SeenEnd => Produced = AllFronts

====
